---- MODULE Spec2Model ----
(***************************************************************************)
(* Warehouse provisioning (infrastructure/resource_manager.py) and the    *)
(* tracked-list flows of the control panel (app.py).                      *)
(*                                                                         *)
(* Strings are sequences of tokens; "" is the empty sequence <<>>.  A     *)
(* call ends as Ret(value, via) or Raise(class, via).                     *)
(***************************************************************************)
EXTENDS Integers, Sequences, FiniteSets, TLC

VARIABLES
    HAS_DATABRICKS_SDK,   \* resource_manager.py: whether the SDK import succeeded
    ctorEnv,              \* what the SDK does when mgr is constructed
    mgr,                  \* a SQLWarehouseManager instance used directly
    provider,             \* numbers of the warehouses that exist at the provider
    nextId,               \* number of the next warehouse the provider creates
    last,                 \* the last direct call on mgr: its inputs and what it gave
    cm,                   \* the frame of create_multiple_warehouses
    created_warehouses,   \* app.py: the tracked list
    cf,                   \* the frame of create_sql_warehouse
    df,                   \* the frame of stop_and_delete_all_warehouses
    endpoints,            \* the provider's listing of SQL warehouses, in list order
    table,                \* the rows of the leaderboard table at the provider
    clock,                \* time.time(), in seconds
    lw,                   \* the frame of create_leaderboard_warehouse
    sf,                   \* the frame of store_leaderboard_in_warehouse
    qf,                   \* the frame of query_leaderboard_from_warehouse
    ff                    \* the frame of the initialize flow (fetch_users_from_scim)

vars == <<HAS_DATABRICKS_SDK, ctorEnv, mgr, provider, nextId, last, cm,
          created_warehouses, cf, df, endpoints, table, clock, lw, sf, qf, ff>>

---------------------------------------------------------------------------
(* Bounds of the model *)

MaxCount == 3       \* the largest count given to create_multiple_warehouses directly
MaxAppCount == 2    \* the largest in-range value of the warehouse-count field
MaxIds == 2         \* the number of warehouses the provider is willing to create
MaxBatches == 2     \* the largest frame stored fills this many batches and one row more
MaxEndpoints == 2   \* the largest number of warehouses the provider lists

---------------------------------------------------------------------------
(* Values *)

(* Optional[str] *)
NoneStr == [isNone |-> TRUE, s |-> <<>>]
Some(s) == [isNone |-> FALSE, s |-> s]
EmptyStr == <<>>

(* how a call ends, and the transports it touched on the way *)
Ret(v, via) == [kind |-> "return", value |-> v, via |-> via]
Raise(c, via) == [kind |-> "raise", exc |-> c, via |-> via]

DigitChar(d) == <<"0", "1", "2", "3", "4", "5", "6", "7", "8", "9">>[d + 1]

(* str(n) of a natural number *)
RECURSIVE Digits(_)
Digits(n) == IF n < 10 THEN <<DigitChar(n)>> ELSE Digits(n \div 10) \o <<DigitChar(n % 10)>>

(* provider-assigned warehouse ids *)
Id(n) == <<"x">> \o Digits(n)

BaseNames == {<<"w", "h">>, <<"d", "b">>}
ExcClasses == {"Timeout", "ConnectionError", "RequestException", "Exception"}

(* exceptions of a transport call, with str(e) empty or not *)
Excs ==
    [kind : {"exc"}, cls : ExcClasses, detail : {EmptyStr}]
      \cup {[kind |-> "exc", cls |-> "Exception", detail |-> <<"boom">>]}

(* what the SDK create call can do: a response carrying an id, a response *)
(* without one, or an exception                                           *)
SdkCreateOutcomes == [kind : {"id", "noid"}] \cup Excs

(* what requests.post can do: 200 with an id, 200 without one, another    *)
(* status whose body is JSON with a message, JSON without one or not JSON,*)
(* or an exception                                                        *)
HttpCreateOutcomes ==
    [kind : {"id", "noid"}]
      \cup {[kind |-> "status", code |-> 500, body |-> "message", detail |-> <<"boom">>],
            [kind |-> "status", code |-> 500, body |-> "nomessage", detail |-> EmptyStr],
            [kind |-> "status", code |-> 500, body |-> "text", detail |-> EmptyStr]}
      \cup Excs

(* list and delete: the call completes, answers another status (HTTP) or  *)
(* raises                                                                 *)
SdkCallOutcomes == [kind : {"ok"}] \cup Excs
HttpCallOutcomes == [kind : {"ok"}] \cup [kind : {"status"}, code : {404}] \cup Excs

(* what the SDK does at construction, when it could be imported *)
SdkBehaviours == {"ctor_raises", "probe_raises", "ok"}
CtorEnvs(hasSdk) == IF hasSdk THEN SdkBehaviours ELSE {"absent"}

---------------------------------------------------------------------------
(* resource_manager.py *)

WarehouseConfig(name) == [name |-> name]

WarehouseResult(name, id, http_path, success, error) ==
    [name |-> name, id |-> id, http_path |-> http_path, success |-> success,
     error |-> error]

(* mutant: the path is the bare id *)
M_HttpPath(id) == id

HttpPath(id) == <<"/sql/1.0/warehouses/">> \o id

(* SQLWarehouseManager.__init__: the strategy is the SDK when the import  *)
(* succeeded, the client was constructed and the probe did not throw      *)
Construct(hasSdk, sdk) ==
    IF hasSdk
    THEN IF sdk = "ctor_raises"
         THEN [use_sdk |-> FALSE, workspace_client |-> "None"]
         ELSE IF sdk = "probe_raises"
              THEN [use_sdk |-> FALSE, workspace_client |-> "None"]
              ELSE [use_sdk |-> TRUE, workspace_client |-> "client"]
    ELSE [use_sdk |-> FALSE, workspace_client |-> "None"]

(* mutant: the SDK handler reports str(e) alone *)
M_create_warehouse_with_sdk(config, o, newId) ==
    IF o.kind = "exc"
    THEN Ret(WarehouseResult(config.name, EmptyStr, EmptyStr, FALSE, Some(o.detail)),
             <<"sdk">>)
    ELSE IF o.kind = "id"
         THEN Ret(WarehouseResult(config.name, newId, HttpPath(newId), TRUE, NoneStr),
                  <<"sdk">>)
         ELSE Ret(WarehouseResult(config.name, EmptyStr, EmptyStr, FALSE,
                                  Some(<<"No warehouse ID in SDK response">>)), <<"sdk">>)

_create_warehouse_with_sdk(config, o, newId) ==
    IF o.kind = "exc"
    THEN Ret(WarehouseResult(config.name, EmptyStr, EmptyStr, FALSE,
                             Some(<<"SDK error: ">> \o o.detail)), <<"sdk">>)
    ELSE IF o.kind = "id"
         THEN Ret(WarehouseResult(config.name, newId, HttpPath(newId), TRUE, NoneStr),
                  <<"sdk">>)
         ELSE Ret(WarehouseResult(config.name, EmptyStr, EmptyStr, FALSE,
                                  Some(<<"No warehouse ID in SDK response">>)), <<"sdk">>)

_create_warehouse_with_http(config, o, newId) ==
    LET Failed(msg) == Ret(WarehouseResult(config.name, EmptyStr, EmptyStr, FALSE,
                                           Some(msg)), <<"http">>)
    IN  IF o.kind = "exc"
        THEN CASE o.cls = "Timeout" ->
                    Failed(<<"Request timeout - API call took too long">>)
               [] o.cls = "ConnectionError" ->
                    Failed(<<"Connection error - unable to reach Databricks API">>)
               [] o.cls = "RequestException" ->
                    Failed(<<"Request failed: ">> \o o.detail)
               [] OTHER ->
                    Failed(<<"Unexpected error: ">> \o o.detail)
        ELSE IF o.kind = "status"
             THEN LET prefix == <<"API request failed with status ">> \o Digits(o.code)
                  IN  Failed(prefix \o <<": ">> \o
                             (CASE o.body = "message" -> o.detail
                                [] o.body = "nomessage" -> <<"Unknown error">>
                                [] OTHER -> o.detail))
             ELSE IF o.kind = "id"
                  THEN Ret(WarehouseResult(config.name, newId, HttpPath(newId), TRUE,
                                           NoneStr), <<"http">>)
                  ELSE Failed(<<"No warehouse ID in response">>)

(* mutant: a failed SDK create is retried over HTTP *)
M_create_warehouse(self, config, o, newId) ==
    IF self.use_sdk
    THEN LET r == _create_warehouse_with_sdk(config, o, newId)
         IN  IF r.value.success
             THEN r
             ELSE [_create_warehouse_with_http(config, o, newId)
                     EXCEPT !.via = <<"sdk", "http">>]
    ELSE _create_warehouse_with_http(config, o, newId)

create_warehouse(self, config, o, newId) ==
    IF self.use_sdk
    THEN _create_warehouse_with_sdk(config, o, newId)
    ELSE _create_warehouse_with_http(config, o, newId)

CreateOutcomes(self) == IF self.use_sdk THEN SdkCreateOutcomes ELSE HttpCreateOutcomes

(* the outcomes drawn for each call of a batch: one of each way to fail *)
BatchOutcomes(self) ==
    {o \in CreateOutcomes(self) :
        \/ o.kind \in {"id", "noid"}
        \/ o.kind = "status" /\ o.body = "nomessage"
        \/ o.kind = "exc" /\ o.cls \in {"Timeout", "Exception"} /\ o.detail = EmptyStr}

(* mutant: the suffix is the zero-based loop index *)
M_WarehouseNameZeroBased(base_name, count, i) ==
    IF count > 1 THEN base_name \o <<"-">> \o Digits(i) ELSE base_name

(* mutant: the first warehouse keeps the bare name *)
M_WarehouseNameFirstBare(base_name, count, i) ==
    IF count > 1 /\ i > 0 THEN base_name \o <<"-">> \o Digits(i + 1) ELSE base_name

(* create_multiple_warehouses: the name of the warehouse of loop index i *)
WarehouseName(base_name, count, i) ==
    IF count > 1 THEN base_name \o <<"-">> \o Digits(i + 1) ELSE base_name

(* the warehouses the provider holds, as the listing returns them *)
RECURSIVE Listing(_)
Listing(S) ==
    IF S = {} THEN <<>>
    ELSE LET n == CHOOSE x \in S : \A y \in S : x <= y
         IN  <<[id |-> Id(n)]>> \o Listing(S \ {n})

_list_warehouses_with_sdk(o, held) ==
    IF o.kind = "exc" THEN Ret(<<>>, <<"sdk">>) ELSE Ret(Listing(held), <<"sdk">>)

(* mutant: the listing is returned whatever the status *)
M_list_warehouses_with_http(o, held) ==
    IF o.kind = "exc" THEN Ret(<<>>, <<"http">>) ELSE Ret(Listing(held), <<"http">>)

_list_warehouses_with_http(o, held) ==
    IF o.kind = "exc"
    THEN Ret(<<>>, <<"http">>)
    ELSE IF o.kind = "status"
         THEN Ret(<<>>, <<"http">>)
         ELSE Ret(Listing(held), <<"http">>)

list_warehouses(self, o, held) ==
    IF self.use_sdk
    THEN _list_warehouses_with_sdk(o, held)
    ELSE _list_warehouses_with_http(o, held)

_delete_warehouse_with_sdk(warehouse_id, o) ==
    IF o.kind = "exc" THEN Ret(FALSE, <<"sdk">>) ELSE Ret(TRUE, <<"sdk">>)

(* mutant: any answer counts as deleted *)
M_delete_warehouse_with_http(warehouse_id, o) ==
    IF o.kind = "exc" THEN Ret(FALSE, <<"http">>) ELSE Ret(TRUE, <<"http">>)

_delete_warehouse_with_http(warehouse_id, o) ==
    IF o.kind = "exc"
    THEN Ret(FALSE, <<"http">>)
    ELSE IF o.kind = "status"
         THEN Ret(FALSE, <<"http">>)
         ELSE Ret(TRUE, <<"http">>)

delete_warehouse(self, warehouse_id, o) ==
    IF self.use_sdk
    THEN _delete_warehouse_with_sdk(warehouse_id, o)
    ELSE _delete_warehouse_with_http(warehouse_id, o)

CallOutcomes(self) == IF self.use_sdk THEN SdkCallOutcomes ELSE HttpCallOutcomes

(* SQLWarehouseManager defines no stop_warehouse: looking the attribute   *)
(* up on an instance raises AttributeError before any transport is used   *)
stop_warehouse(self, warehouse_id) == Raise("AttributeError", <<>>)

(* the provider after a call: a successful create adds the new warehouse, *)
(* a completed delete removes the one named                               *)
Created(held, o, n) == IF o.kind = "id" THEN held \cup {n} ELSE held

Deleted(held, warehouse_id, o) ==
    IF o.kind = "ok" THEN {n \in held : Id(n) # warehouse_id} ELSE held

---------------------------------------------------------------------------
(* Frames *)

NoCall == [op |-> "none"]
CmIdle == [pc |-> "idle"]
CfIdle == [pc |-> "idle"]
DfIdle == [pc |-> "idle"]
LwIdle == [pc |-> "idle"]
SfIdle == [pc |-> "idle"]
QfIdle == [pc |-> "idle"]
FfIdle == [pc |-> "idle"]

appVars == <<created_warehouses, cf, df>>
envVars == <<HAS_DATABRICKS_SDK, ctorEnv, mgr>>
boardVars == <<endpoints, table, clock, lw, sf, qf, ff>>
managerVars == <<envVars, provider, nextId, last, cm, appVars>>

(* a manager has been constructed; nothing has been called yet *)
Init ==
    /\ HAS_DATABRICKS_SDK \in BOOLEAN
    /\ ctorEnv \in CtorEnvs(HAS_DATABRICKS_SDK)
    /\ mgr = Construct(HAS_DATABRICKS_SDK, ctorEnv)
    /\ provider = {}
    /\ nextId = 1
    /\ last = NoCall
    /\ cm = CmIdle
    /\ created_warehouses = <<>>
    /\ cf = CfIdle
    /\ df = DfIdle
    /\ endpoints = <<>>
    /\ table = <<>>
    /\ clock = 0
    /\ lw = LwIdle
    /\ sf = SfIdle
    /\ qf = QfIdle
    /\ ff = FfIdle

---------------------------------------------------------------------------
(* Direct calls on the manager *)

CreateWarehouseCall ==
    /\ \E name \in BaseNames, o \in CreateOutcomes(mgr) :
          /\ o.kind = "id" => nextId <= MaxIds
          /\ last' = [op |-> "create_warehouse", name |-> name, o |-> o,
                      newId |-> Id(nextId),
                      ret |-> create_warehouse(mgr, WarehouseConfig(name), o, Id(nextId))]
          /\ provider' = Created(provider, o, nextId)
          /\ nextId' = IF o.kind = "id" THEN nextId + 1 ELSE nextId
    /\ UNCHANGED <<boardVars, envVars, cm, appVars>>

ListWarehousesCall ==
    /\ \E o \in CallOutcomes(mgr) :
          last' = [op |-> "list_warehouses", o |-> o, held |-> provider,
                   ret |-> list_warehouses(mgr, o, provider)]
    /\ UNCHANGED <<boardVars, envVars, provider, nextId, cm, appVars>>

DeleteWarehouseCall ==
    /\ \E n \in 1..MaxIds, o \in CallOutcomes(mgr) :
          /\ last' = [op |-> "delete_warehouse", id |-> Id(n), o |-> o,
                      ret |-> delete_warehouse(mgr, Id(n), o)]
          /\ provider' = Deleted(provider, Id(n), o)
    /\ UNCHANGED <<boardVars, envVars, nextId, cm, appVars>>

NextCalls ==
    \/ CreateWarehouseCall
    \/ ListWarehousesCall
    \/ DeleteWarehouseCall

SpecCalls == Init /\ [][NextCalls]_vars


(* C1: create_warehouse never raises: on either strategy and for every    *)
(* transport outcome it returns a WarehouseResult, and when no warehouse  *)
(* was created the result has success = false and a non-empty error.      *)
C1_CreateNeverRaises ==
    last.op = "create_warehouse" =>
        /\ last.ret.kind = "return"
        /\ DOMAIN last.ret.value = {"name", "id", "http_path", "success", "error"}
        /\ last.ret.value.success \in BOOLEAN
        /\ last.o.kind # "id" =>
              /\ last.ret.value.success = FALSE
              /\ ~last.ret.value.error.isNone
              /\ Len(last.ret.value.error.s) > 0

C1_Witness ==
    /\ last.op = "create_warehouse"
    /\ mgr.use_sdk
    /\ last.o.kind = "exc"
    /\ last.o.detail = EmptyStr
    /\ last.ret.kind = "return"
    /\ last.ret.value.error = Some(<<"SDK error: ">>)

(* C8: delete_warehouse never raises and returns a boolean, true exactly  *)
(* when the provider call completed (no exception, and status 200 over    *)
(* HTTP).                                                                 *)
C8_DeleteBoolean ==
    last.op = "delete_warehouse" =>
        /\ last.ret.kind = "return"
        /\ last.ret.value \in BOOLEAN
        /\ last.ret.value = TRUE <=> last.o.kind = "ok"

C8_Witness ==
    /\ last.op = "delete_warehouse"
    /\ ~mgr.use_sdk
    /\ last.o.kind = "status"
    /\ last.ret = Ret(FALSE, <<"http">>)

(* C9: list_warehouses never raises: when the transport call fails (an    *)
(* exception, or a status other than 200) it returns the empty list, the  *)
(* same value a successful listing of an empty workspace gives.           *)
C9_ListFailureIsEmpty ==
    last.op = "list_warehouses" =>
        /\ last.ret.kind = "return"
        /\ last.o.kind # "ok" =>
              /\ last.ret.value = <<>>
              /\ last.ret.value = list_warehouses(mgr, [kind |-> "ok"], {}).value

C9_Witness ==
    /\ last.op = "list_warehouses"
    /\ ~mgr.use_sdk
    /\ last.o.kind = "status"
    /\ last.held # {}
    /\ last.ret.kind = "return"
    /\ last.ret.value = <<>>

(* C10: the strategy is the one the constructor chose (the SDK only when  *)
(* the import, the client construction and the probe all succeeded; HTTP  *)
(* with no client otherwise), it stays so across create, list and delete  *)
(* calls, and every call touches the chosen transport only: a failed SDK  *)
(* call is not followed by an HTTP attempt.                               *)
C10_StrategyFixed ==
    /\ mgr.use_sdk = (HAS_DATABRICKS_SDK /\ ctorEnv = "ok")
    /\ ~mgr.use_sdk => mgr.workspace_client = "None"
    /\ last.op # "none" =>
          last.ret.via = <<IF HAS_DATABRICKS_SDK /\ ctorEnv = "ok" THEN "sdk" ELSE "http">>

C10_Witness ==
    /\ last.op = "create_warehouse"
    /\ mgr.use_sdk
    /\ last.o.kind = "exc"
    /\ last.ret.kind = "return"
    /\ ~last.ret.value.success
    /\ last.ret.via = <<"sdk">>

---------------------------------------------------------------------------
(* create_multiple_warehouses, one step per call boundary *)

CreateMultipleEnter(self, base_name, count) ==
    [pc |-> IF count > 0 THEN "create" ELSE "done", self |-> self,
     base_name |-> base_name, count |-> count, i |-> 0,
     attempts |-> <<>>, results |-> <<>>]

CreateMultipleStart ==
    /\ cm.pc = "idle"
    /\ \E base_name \in BaseNames, count \in 0..MaxCount :
          cm' = CreateMultipleEnter(mgr, base_name, count)
    /\ last' = NoCall
    /\ UNCHANGED <<boardVars, envVars, provider, nextId, appVars>>

(* mutant: the next creation follows with no delay *)
M_CreateMultipleIter ==
    /\ cm.pc = "create"
    /\ \E o \in BatchOutcomes(cm.self) :
          /\ o.kind = "id" => nextId <= MaxIds
          /\ LET name == WarehouseName(cm.base_name, cm.count, cm.i)
                 r == create_warehouse(cm.self, WarehouseConfig(name), o, Id(nextId))
                 a == [i |-> cm.i, name |-> name, o |-> o, newId |-> Id(nextId)]
             IN  cm' = [cm EXCEPT !.pc = IF cm.i + 1 < cm.count THEN "create" ELSE "sleep",
                                  !.i = IF cm.i + 1 < cm.count THEN @ + 1 ELSE @,
                                  !.attempts = Append(@, a),
                                  !.results = Append(@, r.value)]
          /\ provider' = Created(provider, o, nextId)
          /\ nextId' = IF o.kind = "id" THEN nextId + 1 ELSE nextId
    /\ UNCHANGED <<boardVars, envVars, last, appVars>>

(* lines 357-370: name the warehouse, create it, append the result *)
CreateMultipleIter ==
    /\ cm.pc = "create"
    /\ \E o \in BatchOutcomes(cm.self) :
          /\ o.kind = "id" => nextId <= MaxIds
          /\ LET name == WarehouseName(cm.base_name, cm.count, cm.i)
                 r == create_warehouse(cm.self, WarehouseConfig(name), o, Id(nextId))
                 a == [i |-> cm.i, name |-> name, o |-> o, newId |-> Id(nextId)]
             IN  cm' = IF r.kind = "return"
                       THEN [cm EXCEPT !.pc = "sleep",
                                       !.attempts = Append(@, a),
                                       !.results = Append(@, r.value)]
                       ELSE [cm EXCEPT !.pc = "raised", !.attempts = Append(@, a)]
          /\ provider' = Created(provider, o, nextId)
          /\ nextId' = IF o.kind = "id" THEN nextId + 1 ELSE nextId
    /\ UNCHANGED <<boardVars, envVars, last, appVars>>

(* mutant: the loop ends at the first failed creation *)
M_CreateMultipleSleep ==
    /\ cm.pc = "sleep"
    /\ cm' = [cm EXCEPT !.i = @ + 1,
                        !.pc = IF cm.i + 1 < cm.count /\ cm.results[cm.i + 1].success
                               THEN "create" ELSE "done"]
    /\ UNCHANGED <<boardVars, envVars, provider, nextId, last, appVars>>

(* lines 372-374 and 357: the pacing delay, then the next index *)
CreateMultipleSleep ==
    /\ cm.pc = "sleep"
    /\ cm' = [cm EXCEPT !.i = @ + 1,
                        !.pc = IF cm.i + 1 < cm.count THEN "create" ELSE "done"]
    /\ UNCHANGED <<boardVars, envVars, provider, nextId, last, appVars>>

CreateMultipleReturn ==
    /\ cm.pc \in {"done", "raised"}
    /\ cf.pc = "idle"
    /\ last' = [op |-> "create_multiple_warehouses", base_name |-> cm.base_name,
                count |-> cm.count, attempts |-> cm.attempts,
                ret |-> IF cm.pc = "done" THEN Ret(cm.results, <<>>)
                                          ELSE Raise("Exception", <<>>)]
    /\ cm' = CmIdle
    /\ UNCHANGED <<boardVars, envVars, provider, nextId, appVars>>

NextMulti ==
    \/ CreateMultipleStart
    \/ CreateMultipleIter
    \/ CreateMultipleSleep
    \/ CreateMultipleReturn

SpecMulti == Init /\ [][NextMulti]_vars

(* C2: create_multiple_warehouses attempts exactly count creations, with  *)
(* loop indices in order, whichever of them fail, and returns one result  *)
(* per attempt in attempt order: result i is what create_warehouse gave   *)
(* for attempt i.                                                         *)
C2_AllAttempted ==
    last.op = "create_multiple_warehouses" =>
        /\ last.ret.kind = "return"
        /\ Len(last.attempts) = last.count
        /\ Len(last.ret.value) = last.count
        /\ \A k \in 1..last.count :
              /\ last.attempts[k].i = k - 1
              /\ last.ret.value[k] =
                    create_warehouse(mgr, WarehouseConfig(last.attempts[k].name),
                                     last.attempts[k].o, last.attempts[k].newId).value

C2_Witness ==
    /\ last.op = "create_multiple_warehouses"
    /\ last.count >= 3
    /\ last.ret.kind = "return"
    /\ last.ret.value[1].success
    /\ ~last.ret.value[2].success
    /\ last.ret.value[3].success

(* C3: while and after create_multiple_warehouses runs, the k-th result   *)
(* is named base_name-k for every k (k = 1 included) when count > 1,      *)
(* succeeded or failed, and base_name when count = 1.                     *)
C3_ResultNames ==
    cm.pc # "idle" =>
        \A k \in 1..Len(cm.results) :
            cm.results[k].name =
                IF cm.count > 1 THEN cm.base_name \o <<"-">> \o Digits(k)
                                ELSE cm.base_name

C3_Witness ==
    /\ cm.pc = "done"
    /\ cm.count > 1
    /\ Len(cm.results) = cm.count
    /\ ~cm.results[1].success
    /\ cm.results[1].name = cm.base_name \o <<"-", "1">>
    /\ cm.results[2].success

(* C4 as stated: N results, the first with the bare name, results 2..N    *)
(* with the ordinal suffix.                                               *)
C4_Original ==
    last.op = "create_multiple_warehouses" =>
        /\ last.ret.kind = "return"
        /\ Len(last.ret.value) = last.count
        /\ last.count >= 1 => last.ret.value[1].name = last.base_name
        /\ \A k \in 2..last.count :
              last.ret.value[k].name = last.base_name \o <<"-">> \o Digits(k)

(* C4, amended: for a replica count N the call returns exactly N results  *)
(* in input order; when N > 1 every result 1..N, the first included,      *)
(* carries its ordinal suffix, and when N = 1 the name is unsuffixed.     *)
C4_Amended ==
    last.op = "create_multiple_warehouses" =>
        /\ last.ret.kind = "return"
        /\ Len(last.ret.value) = last.count
        /\ \A k \in 1..last.count : last.ret.value[k].name = last.attempts[k].name
        /\ last.count = 1 => last.ret.value[1].name = last.base_name
        /\ last.count > 1 =>
              \A k \in 1..last.count :
                  last.ret.value[k].name = last.base_name \o <<"-">> \o Digits(k)

C4_Witness ==
    /\ last.op = "create_multiple_warehouses"
    /\ last.count > 1
    /\ last.ret.kind = "return"
    /\ last.ret.value[1].name = last.base_name \o <<"-", "1">>

---------------------------------------------------------------------------
(* app.py: the create flow and the bulk-delete flow, one request at a     *)
(* time; a request starts once the frame of the one before is gone        *)

MaxReplicas == 5

(* the value of the warehouse-count field *)
CountInputs ==
    {[t |-> "none"], [t |-> "str"]}
      \cup [t : {"int"}, v : (-1..MaxAppCount) \cup {MaxReplicas + 1}]

(* lines 273-278: int(warehouse_count) if warehouse_count else 1, then    *)
(* the range check                                                        *)
ParseCount(c) ==
    IF c.t = "none" THEN [ok |-> TRUE, v |-> 1]
    ELSE IF c.t = "str" THEN [ok |-> FALSE, msg |-> "invalid_count"]
    ELSE LET v == IF c.v = 0 THEN 1 ELSE c.v
         IN  IF v < 1 \/ v > MaxReplicas
             THEN [ok |-> FALSE, msg |-> "count_out_of_range"]
             ELSE [ok |-> TRUE, v |-> v]

(* mutant: every result is tracked, the failed ones included *)
M_Tracked(results) ==
    [k \in 1..Len(results) |->
        [id |-> results[k].id, name |-> results[k].name,
         http_path |-> results[k].http_path]]

(* lines 306-316: the tracked entries of the successful results *)
Tracked(results) ==
    LET ok == SelectSeq(results, LAMBDA r : r.success)
    IN  [k \in 1..Len(ok) |->
            [id |-> ok[k].id, name |-> ok[k].name, http_path |-> ok[k].http_path]]

(* lines 264-303: validation, then a manager of its own and the call      *)
CreateClick ==
    /\ cf.pc \in {"idle", "done"}
    /\ df.pc \in {"idle", "done"}
    /\ cm.pc = "idle"
    /\ \E fields \in BOOLEAN, c \in CountInputs, auto_stop_ok \in BOOLEAN,
          warehouse_name \in BaseNames, sdk \in CtorEnvs(HAS_DATABRICKS_SDK) :
          LET n == ParseCount(c)
          IN  IF ~fields
              THEN /\ cf' = [pc |-> "done", msg |-> "missing_fields",
                              fields |-> fields, warehouse_count |-> c]
                   /\ cm' = cm
              ELSE IF ~n.ok
              THEN /\ cf' = [pc |-> "done", msg |-> n.msg,
                              fields |-> fields, warehouse_count |-> c]
                   /\ cm' = cm
              ELSE IF ~auto_stop_ok
              THEN /\ cf' = [pc |-> "done", msg |-> "invalid_auto_stop",
                              fields |-> fields, warehouse_count |-> c]
                   /\ cm' = cm
              ELSE /\ cf' = [pc |-> "creating", msg |-> "progress",
                              fields |-> fields, warehouse_count |-> c]
                   /\ cm' = CreateMultipleEnter(Construct(HAS_DATABRICKS_SDK, sdk),
                                                warehouse_name, n.v)
    /\ df' = DfIdle
    /\ UNCHANGED <<boardVars, envVars, provider, nextId, last, created_warehouses>>

(* lines 305-373: the successful results are appended to the tracked list *)
CreateTrack ==
    /\ cf.pc = "creating"
    /\ cm.pc \in {"done", "raised"}
    /\ IF cm.pc = "raised"
       THEN /\ created_warehouses' = created_warehouses
            /\ cf' = [cf EXCEPT !.pc = "done", !.msg = "unexpected_error"]
       ELSE /\ created_warehouses' = created_warehouses \o Tracked(cm.results)
            /\ cf' = [cf EXCEPT !.pc = "done",
                                !.msg = IF Len(Tracked(cm.results)) > 0
                                        THEN "created" ELSE "all_failed"]
    /\ cm' = CmIdle
    /\ UNCHANGED <<boardVars, envVars, provider, nextId, last, df>>

(* lines 964-989 *)
DeleteClick ==
    /\ df.pc \in {"idle", "done"}
    /\ cf.pc \in {"idle", "done"}
    /\ \E fields \in BOOLEAN, sdk \in CtorEnvs(HAS_DATABRICKS_SDK) :
          df' = IF ~fields
                THEN [pc |-> "done", msg |-> "missing_fields", warehouse_count |-> 0]
                ELSE IF Len(created_warehouses) = 0
                THEN [pc |-> "done", msg |-> "nothing_to_delete", warehouse_count |-> 0]
                ELSE [pc |-> "loop", self |-> Construct(HAS_DATABRICKS_SDK, sdk),
                      warehouse_count |-> Len(created_warehouses),
                      entries |-> created_warehouses, idx |-> 0, deleted_count |-> 0,
                      failed_deletions |-> <<>>, calls |-> <<>>, msg |-> "progress"]
    /\ cf' = CfIdle
    /\ UNCHANGED <<boardVars, envVars, provider, nextId, last, cm, created_warehouses>>

(* lines 991-1013: stop, then delete, each entry under its own handler *)
DeleteIter ==
    /\ df.pc = "loop"
    /\ df.idx < Len(created_warehouses)
    /\ \E o \in CallOutcomes(df.self) :
          LET warehouse == created_warehouses[df.idx + 1]
              stopped == stop_warehouse(df.self, warehouse.id)
              stopCall == [op |-> "stop", id |-> warehouse.id, ret |-> stopped]
              deleted == delete_warehouse(df.self, warehouse.id, o)
              deleteCall == [op |-> "delete", id |-> warehouse.id, ret |-> deleted]
          IN  IF stopped.kind = "raise"
              THEN /\ df' = [df EXCEPT !.idx = @ + 1,
                                       !.calls = Append(@, stopCall),
                                       !.failed_deletions = Append(@, warehouse.name)]
                   /\ provider' = provider
              ELSE /\ df' = IF deleted.kind = "raise"
                            THEN [df EXCEPT !.idx = @ + 1,
                                            !.calls = @ \o <<stopCall, deleteCall>>,
                                            !.failed_deletions = Append(@, warehouse.name)]
                            ELSE IF deleted.value
                            THEN [df EXCEPT !.idx = @ + 1,
                                            !.calls = @ \o <<stopCall, deleteCall>>,
                                            !.deleted_count = @ + 1]
                            ELSE [df EXCEPT !.idx = @ + 1,
                                            !.calls = @ \o <<stopCall, deleteCall>>,
                                            !.failed_deletions = Append(@, warehouse.name)]
                   /\ provider' = Deleted(provider, warehouse.id, o)
    /\ UNCHANGED <<boardVars, envVars, nextId, last, cm, created_warehouses, cf>>

(* mutant: the entries whose deletion failed stay tracked *)
M_DeleteClear ==
    /\ df.pc = "loop"
    /\ df.idx >= Len(created_warehouses)
    /\ created_warehouses' =
          SelectSeq(created_warehouses,
                    LAMBDA w : \E k \in 1..Len(df.failed_deletions) :
                                  df.failed_deletions[k] = w.name)
    /\ df' = [df EXCEPT !.pc = "done",
                        !.msg = IF df.deleted_count = df.warehouse_count THEN "all_deleted"
                                ELSE IF df.deleted_count > 0 THEN "partial"
                                ELSE "deletion_failed"]
    /\ UNCHANGED <<boardVars, envVars, provider, nextId, last, cm, cf>>

(* lines 1015-1036: the list is cleared once the loop is over *)
DeleteClear ==
    /\ df.pc = "loop"
    /\ df.idx >= Len(created_warehouses)
    /\ created_warehouses' = <<>>
    /\ df' = [df EXCEPT !.pc = "done",
                        !.msg = IF df.deleted_count = df.warehouse_count THEN "all_deleted"
                                ELSE IF df.deleted_count > 0 THEN "partial"
                                ELSE "deletion_failed"]
    /\ UNCHANGED <<boardVars, envVars, provider, nextId, last, cm, cf>>

NextApp ==
    \/ CreateClick
    \/ CreateMultipleIter
    \/ CreateMultipleSleep
    \/ CreateTrack
    \/ DeleteClick
    \/ DeleteIter
    \/ DeleteClear

(* the flows construct their managers themselves *)
InitApp == Init /\ (HAS_DATABRICKS_SDK => ctorEnv = "ok")

SpecApp == InitApp /\ [][NextApp]_vars

(* C5: when a bulk-delete pass over K >= 1 tracked entries completes, the *)
(* tracked list is empty, however many of the entries failed to be        *)
(* deleted.                                                               *)
C5_ClearedAfterPass ==
    [][(df.pc = "loop" /\ df'.pc = "done") => created_warehouses' = <<>>]_vars

C5_Witness ==
    /\ df.pc = "done"
    /\ df.warehouse_count >= 2
    /\ Len(df.failed_deletions) = df.warehouse_count
    /\ created_warehouses = <<>>
    /\ provider # {}

(* the calls a pass over the entries issues when each stop and delete is  *)
(* made: stop then delete, entry by entry                                 *)
RECURSIVE StopThenDelete(_)
StopThenDelete(entries) ==
    IF entries = <<>> THEN <<>>
    ELSE <<[op |-> "stop", id |-> Head(entries).id],
           [op |-> "delete", id |-> Head(entries).id]>> \o StopThenDelete(Tail(entries))

(* C6: in a finished pass over K entries, for each entry in list order a  *)
(* stop was attempted and then a delete call was issued for its id.       *)
C6_StopThenDeleteEach ==
    (df.pc = "done" /\ df.warehouse_count >= 1) =>
        [k \in 1..Len(df.calls) |-> [op |-> df.calls[k].op, id |-> df.calls[k].id]]
            = StopThenDelete(df.entries)

(* C7: every stop call of the provisioner returns a boolean and does not  *)
(* raise.                                                                 *)
C7_StopReturnsBoolean ==
    df.pc \in {"loop", "done"} /\ df.warehouse_count >= 1 =>
        \A k \in 1..Len(df.calls) :
            df.calls[k].op = "stop" =>
                /\ df.calls[k].ret.kind = "return"
                /\ df.calls[k].ret.value \in BOOLEAN

(* the entries of the results that report success, in the order of the    *)
(* results                                                                *)
RECURSIVE SuccessEntries(_)
SuccessEntries(results) ==
    IF results = <<>> THEN <<>>
    ELSE LET r == Head(results)
         IN  (IF r.success
              THEN <<[id |-> r.id, name |-> r.name, http_path |-> r.http_path]>>
              ELSE <<>>) \o SuccessEntries(Tail(results))

(* C11: a create flow appends to the tracked list exactly the entries of  *)
(* its successful results, in creation order, each with a non-empty id    *)
(* and path; the list changes in no other way than by such an append or   *)
(* by the clear that ends a bulk-delete pass.                             *)
C11_TrackedOnlySuccesses ==
    [][/\ \A k \in 1..Len(created_warehouses) :
              /\ created_warehouses[k].id # EmptyStr
              /\ created_warehouses[k].http_path # EmptyStr
       /\ (cf.pc = "creating" /\ cf'.pc = "done" /\ cm.pc = "done") =>
              created_warehouses' = created_warehouses \o SuccessEntries(cm.results)
       /\ created_warehouses' # created_warehouses =>
              \/ cf.pc = "creating" /\ cf'.pc = "done"
              \/ df.pc = "loop" /\ df'.pc = "done" /\ created_warehouses' = <<>>
      ]_vars

C11_Witness ==
    /\ cf.pc = "done"
    /\ cf.msg = "created"
    /\ Len(created_warehouses) = 1
    /\ created_warehouses[1].name = <<"w", "h", "-", "2">>
    /\ created_warehouses[1].id # EmptyStr

(* C12: a create request with a required field missing, or with an       *)
(* integer replica count outside 1..5, ends rejected with a message and   *)
(* without a manager call: nothing is created or tracked for it.          *)
C12_RejectsInvalid ==
    (/\ cf.pc # "idle"
     /\ \/ ~cf.fields
        \/ /\ cf.warehouse_count.t = "int"
           /\ (cf.warehouse_count.v < 1 \/ cf.warehouse_count.v > MaxReplicas))
        => /\ cf.pc = "done"
           /\ cf.msg \in {"missing_fields", "count_out_of_range", "invalid_count",
                         "invalid_auto_stop"}

---------------------------------------------------------------------------
(* app.py: the leaderboard table at the SQL warehouse                     *)

batch_size == 1000
LIMIT == 50

Min(a, b) == IF a < b THEN a ELSE b

(* the participants frames handed to the store: n rows of one population  *)
(* of users, whose display name may hold a quote                          *)
Sizes == {0, 1, LIMIT + 1, batch_size, MaxBatches * batch_size + 1}
DisplayNames == {<<"a">>, <<"o", "'", "b">>}
Frames == [display_name : DisplayNames, n : Sizes]

(* lines 651-663: row k of the frame has rank k and score 0 *)
DfRow(data, k) == [rank |-> k, display_name |-> data.display_name, score |-> 0]

Records(data) == [k \in 1..data.n |-> DfRow(data, k)]

(* str.replace("'", "''") *)
RECURSIVE Escape(_)
Escape(s) ==
    IF s = <<>> THEN <<>>
    ELSE (IF Head(s) = "'" THEN <<"'", "'">> ELSE <<Head(s)>>) \o Escape(Tail(s))

(* the provider's reading of the body of a quoted literal: '' is one quote *)
RECURSIVE SqlString(_)
SqlString(s) ==
    IF s = <<>> THEN <<>>
    ELSE IF Len(s) >= 2 /\ s[1] = "'" /\ s[2] = "'"
         THEN <<"'">> \o SqlString(Tail(Tail(s)))
         ELSE <<Head(s)>> \o SqlString(Tail(s))

(* lines 1252-1264: the VALUES tuple of a row, as the provider stores it *)
InsertedRow(row) ==
    [rank |-> row.rank, display_name |-> SqlString(Escape(row.display_name)),
     score |-> row.score]

(* line 1213 *)
FullTableName(catalog_name, schema_name, table_name) ==
    catalog_name \o <<".">> \o schema_name \o <<".">> \o table_name

(* the destination of the model: the defaults of the signature *)
Destination == FullTableName(<<"main">>, <<"default">>, <<"workshop_leaderboard">>)

(* mutant: the batch runs to the end of the frame *)
M_Batch(n, i) == [first |-> i + 1, last |-> n]

(* line 1248: df.iloc[i:i+batch_size], as the rows first..last *)
Batch(n, i) == [first |-> i + 1, last |-> Min(i + batch_size, n)]

(* mutant: a supplied id is not looked at *)
M_Truthy(x) == ~x.isNone /\ x.s # x.s

(* `if warehouse_id:` *)
Truthy(x) == ~x.isNone /\ x.s # EmptyStr

(* the listings the provider can give: distinct ids, each warehouse with  *)
(* a state (or none) and with whether a start call on it succeeds         *)
EndpointStates == {"RUNNING", "STOPPED", "None"}
Endpoint(n, state, startable) == [id |-> Id(n), state |-> state, startable |-> startable]
Listings ==
    {l \in UNION {[1..len -> [id : {Id(n) : n \in 1..MaxEndpoints},
                             state : EndpointStates, startable : BOOLEAN]] :
                  len \in 0..MaxEndpoints} :
        \A j, k \in 1..Len(l) : j # k => l[j].id # l[k].id}

(* lines 1188-1191 and 1331-1334: the first listed warehouse that is      *)
(* RUNNING                                                                *)
RECURSIVE FirstRunning(_)
FirstRunning(listing) ==
    IF listing = <<>> THEN NoneStr
    ELSE IF Head(listing).state = "RUNNING" THEN Some(Head(listing).id)
         ELSE FirstRunning(Tail(listing))

(* lines 1196-1204: start calls in list order up to the first that does   *)
(* not raise                                                              *)
RECURSIVE StartFirst(_)
StartFirst(listing) ==
    IF listing = <<>> THEN [running_warehouse |-> NoneStr, starts |-> <<>>]
    ELSE IF Head(listing).startable
         THEN [running_warehouse |-> Some(Head(listing).id),
               starts |-> <<Head(listing).id>>]
         ELSE LET rest == StartFirst(Tail(listing))
              IN  [running_warehouse |-> rest.running_warehouse,
                   starts |-> <<Head(listing).id>> \o rest.starts]

(* mutant: only the first listed warehouse is started *)
M_StoreFind(warehouse_id, o, listing) ==
    IF Truthy(warehouse_id)
    THEN IF o = "raise"
         THEN [kind |-> "raise", running_warehouse |-> NoneStr, starts |-> <<>>,
               calls |-> <<"get">>]
         ELSE [kind |-> "ok", running_warehouse |-> warehouse_id, starts |-> <<>>,
               calls |-> <<"get">>]
    ELSE IF o = "raise"
         THEN [kind |-> "raise", running_warehouse |-> NoneStr, starts |-> <<>>,
               calls |-> <<"list">>]
         ELSE IF ~FirstRunning(listing).isNone
              THEN [kind |-> "ok", running_warehouse |-> FirstRunning(listing),
                    starts |-> <<>>, calls |-> <<"list">>]
              ELSE LET started == StartFirst(SubSeq(listing, 1, Min(1, Len(listing))))
                   IN  [kind |-> "ok", running_warehouse |-> started.running_warehouse,
                        starts |-> started.starts,
                        calls |-> <<"list">> \o [k \in 1..Len(started.starts) |-> "start"]]

(* lines 1180-1204: the warehouse the store runs its statements on; o is  *)
(* whether the get or list call returns or raises                         *)
StoreFind(warehouse_id, o, listing) ==
    IF Truthy(warehouse_id)
    THEN IF o = "raise"
         THEN [kind |-> "raise", running_warehouse |-> NoneStr, starts |-> <<>>,
               calls |-> <<"get">>]
         ELSE [kind |-> "ok", running_warehouse |-> warehouse_id, starts |-> <<>>,
               calls |-> <<"get">>]
    ELSE IF o = "raise"
         THEN [kind |-> "raise", running_warehouse |-> NoneStr, starts |-> <<>>,
               calls |-> <<"list">>]
         ELSE IF ~FirstRunning(listing).isNone
              THEN [kind |-> "ok", running_warehouse |-> FirstRunning(listing),
                    starts |-> <<>>, calls |-> <<"list">>]
              ELSE LET started == StartFirst(listing)
                   IN  [kind |-> "ok", running_warehouse |-> started.running_warehouse,
                        starts |-> started.starts,
                        calls |-> <<"list">> \o [k \in 1..Len(started.starts) |-> "start"]]

(* mutant: the query looks at the first listed warehouse only *)
M_QueryFind(warehouse_id, o, listing) ==
    IF Truthy(warehouse_id)
    THEN IF o = "raise"
         THEN [kind |-> "raise", running_warehouse |-> NoneStr, starts |-> <<>>,
               calls |-> <<"get">>, error |-> <<"boom">>]
         ELSE [kind |-> "ok", running_warehouse |-> warehouse_id, starts |-> <<>>,
               calls |-> <<"get">>, error |-> EmptyStr]
    ELSE IF o = "raise"
         THEN [kind |-> "raise", running_warehouse |-> NoneStr, starts |-> <<>>,
               calls |-> <<"list">>, error |-> <<"boom">>]
         ELSE IF ~FirstRunning(SubSeq(listing, 1, Min(1, Len(listing)))).isNone
              THEN [kind |-> "ok",
                    running_warehouse |->
                        FirstRunning(SubSeq(listing, 1, Min(1, Len(listing)))),
                    starts |-> <<>>, calls |-> <<"list">>, error |-> EmptyStr]
              ELSE [kind |-> "raise", running_warehouse |-> NoneStr, starts |-> <<>>,
                    calls |-> <<"list">>, error |-> <<"No running warehouse found">>]

(* lines 1323-1337: the warehouse the query runs on; none RUNNING raises  *)
QueryFind(warehouse_id, o, listing) ==
    IF Truthy(warehouse_id)
    THEN IF o = "raise"
         THEN [kind |-> "raise", running_warehouse |-> NoneStr, starts |-> <<>>,
               calls |-> <<"get">>, error |-> <<"boom">>]
         ELSE [kind |-> "ok", running_warehouse |-> warehouse_id, starts |-> <<>>,
               calls |-> <<"get">>, error |-> EmptyStr]
    ELSE IF o = "raise"
         THEN [kind |-> "raise", running_warehouse |-> NoneStr, starts |-> <<>>,
               calls |-> <<"list">>, error |-> <<"boom">>]
         ELSE IF ~FirstRunning(listing).isNone
              THEN [kind |-> "ok", running_warehouse |-> FirstRunning(listing),
                    starts |-> <<>>, calls |-> <<"list">>, error |-> EmptyStr]
              ELSE [kind |-> "raise", running_warehouse |-> NoneStr, starts |-> <<>>,
                    calls |-> <<"list">>, error |-> <<"No running warehouse found">>]

CallResults == {"ok", "raise"}

NoWarehouse == <<"No SQL warehouse available. Please create a warehouse first.">>

(* lines 1155-1210: the store up to its first statement *)
StoreEnter(data, warehouse_id, o) ==
    LET found == StoreFind(warehouse_id, o, endpoints)
        frame == [pc |-> "create_table", df |-> data, warehouse_id |-> warehouse_id,
                  lookup |-> o, running_warehouse |-> found.running_warehouse,
                  starts |-> found.starts, calls |-> found.calls, i |-> 0,
                  statements |-> <<>>,
                  before |-> [rows |-> Len(table),
                              scored |-> table # <<>> /\ table[1].score # 0],
                  result |-> [success |-> FALSE, error |-> EmptyStr]]
    IN  IF found.kind = "raise"
        THEN [frame EXCEPT !.pc = "done",
                           !.result = [success |-> FALSE, error |-> <<"boom">>]]
        ELSE IF found.running_warehouse.isNone
        THEN [frame EXCEPT !.pc = "done",
                           !.result = [success |-> FALSE, error |-> NoWarehouse]]
        ELSE frame

Statement(kind, from, to, o) ==
    [kind |-> kind, warehouse_id |-> sf.running_warehouse.s, first |-> from,
     last |-> to, ok |-> o = "ok"]

StoreFailed(stmt) ==
    [sf EXCEPT !.pc = "done", !.statements = Append(@, stmt),
               !.result = [success |-> FALSE, error |-> <<"boom">>]]

(* mutant: an exception of CREATE TABLE is swallowed *)
M_StoreCreateTable ==
    /\ sf.pc = "create_table"
    /\ \E o \in CallResults :
          sf' = [sf EXCEPT !.pc = "delete",
                           !.statements = Append(@, Statement("CREATE", 0, 0, o))]
    /\ UNCHANGED <<managerVars, endpoints, table, clock, lw, qf, ff>>

(* lines 1216-1234: CREATE TABLE IF NOT EXISTS *)
StoreCreateTable ==
    /\ sf.pc = "create_table"
    /\ \E o \in CallResults :
          LET stmt == Statement("CREATE", 0, 0, o)
          IN  sf' = IF o = "raise" THEN StoreFailed(stmt)
                    ELSE [sf EXCEPT !.pc = "delete", !.statements = Append(@, stmt)]
    /\ UNCHANGED <<managerVars, endpoints, table, clock, lw, qf, ff>>

(* mutant: the DELETE leaves the rows in place *)
M_StoreDelete ==
    /\ sf.pc = "delete"
    /\ \E o \in CallResults :
          LET stmt == Statement("DELETE", 0, 0, o)
          IN  /\ sf' = IF o = "raise" THEN StoreFailed(stmt)
                       ELSE [sf EXCEPT !.pc = "insert", !.statements = Append(@, stmt)]
              /\ table' = table
    /\ UNCHANGED <<managerVars, endpoints, clock, lw, qf, ff>>

(* lines 1238-1243: DELETE FROM the table *)
StoreDelete ==
    /\ sf.pc = "delete"
    /\ \E o \in CallResults :
          LET stmt == Statement("DELETE", 0, 0, o)
          IN  /\ sf' = IF o = "raise" THEN StoreFailed(stmt)
                       ELSE [sf EXCEPT !.pc = "insert", !.statements = Append(@, stmt)]
              /\ table' = IF o = "raise" THEN table ELSE <<>>
    /\ UNCHANGED <<managerVars, endpoints, clock, lw, qf, ff>>

(* mutant: a failed INSERT is logged and the next batch follows *)
M_StoreInsert ==
    /\ sf.pc = "insert"
    /\ sf.i < sf.df.n
    /\ \E o \in CallResults :
          LET batch == Batch(sf.df.n, sf.i)
              stmt == Statement("INSERT", batch.first, batch.last, o)
          IN  /\ sf' = [sf EXCEPT !.i = @ + batch_size, !.statements = Append(@, stmt)]
              /\ table' = IF o = "raise" THEN table
                          ELSE table \o [k \in 1..(batch.last - batch.first + 1) |->
                                            InsertedRow(DfRow(sf.df, batch.first + k - 1))]
    /\ UNCHANGED <<managerVars, endpoints, clock, lw, qf, ff>>

(* mutant: a failed INSERT takes the batches inserted so far back out *)
M_StoreInsertUndo ==
    /\ sf.pc = "insert"
    /\ sf.i < sf.df.n
    /\ \E o \in CallResults :
          LET batch == Batch(sf.df.n, sf.i)
              stmt == Statement("INSERT", batch.first, batch.last, o)
          IN  /\ sf' = IF o = "raise" THEN StoreFailed(stmt)
                       ELSE [sf EXCEPT !.i = @ + batch_size,
                                       !.statements = Append(@, stmt)]
              /\ table' = IF o = "raise" THEN <<>>
                          ELSE table \o [k \in 1..(batch.last - batch.first + 1) |->
                                            InsertedRow(DfRow(sf.df, batch.first + k - 1))]
    /\ UNCHANGED <<managerVars, endpoints, clock, lw, qf, ff>>

(* lines 1246-1277: one INSERT for the batch that starts at row i *)
StoreInsert ==
    /\ sf.pc = "insert"
    /\ sf.i < sf.df.n
    /\ \E o \in CallResults :
          LET batch == Batch(sf.df.n, sf.i)
              stmt == Statement("INSERT", batch.first, batch.last, o)
          IN  /\ sf' = IF o = "raise" THEN StoreFailed(stmt)
                       ELSE [sf EXCEPT !.i = @ + batch_size,
                                       !.statements = Append(@, stmt)]
              /\ table' = IF o = "raise" THEN table
                          ELSE table \o [k \in 1..(batch.last - batch.first + 1) |->
                                            InsertedRow(DfRow(sf.df, batch.first + k - 1))]
    /\ UNCHANGED <<managerVars, endpoints, clock, lw, qf, ff>>

(* lines 1279-1286 *)
StoreReturn ==
    /\ sf.pc = "insert"
    /\ sf.i >= sf.df.n
    /\ sf' = [sf EXCEPT !.pc = "done",
                        !.result = [success |-> TRUE, table_name |-> Destination,
                                    warehouse_id |-> sf.running_warehouse.s,
                                    record_count |-> sf.df.n]]
    /\ UNCHANGED <<managerVars, endpoints, table, clock, lw, qf, ff>>

(* the indices of the limit rows of t that come first by ascending rank,  *)
(* an earlier row before a later one of the same rank, the rows in taken  *)
(* left out                                                               *)
RECURSIVE LeastRows(_, _, _)
LeastRows(t, taken, limit) ==
    LET left == (1..Len(t)) \ taken
    IN  IF limit = 0 \/ left = {} THEN <<>>
        ELSE IF limit = 1
        THEN <<CHOOSE k \in left :
                  \A j \in left : \/ t[k].rank < t[j].rank
                                  \/ t[k].rank = t[j].rank /\ k <= j>>
        ELSE LET half == limit \div 2
                 a == LeastRows(t, taken, half)
                 b == LeastRows(t, taken \cup {a[k] : k \in 1..Len(a)}, limit - half)
             IN  a \o b

(* the first limit rows of t by ascending rank *)
SortByRank(t, limit) ==
    LET idx == LeastRows(t, {}, limit)
    IN  [k \in 1..Len(idx) |-> t[idx[k]]]

(* mutant: the SELECT has no LIMIT *)
M_SelectTop(t, limit) == SortByRank(t, Len(t))

(* lines 1341-1346: ORDER BY rank LIMIT 50.  When limit rows or more have *)
(* a rank of at most limit, the answer lies among them.                   *)
SelectTop(t, limit) ==
    LET low == SelectSeq(t, LAMBDA row : row.rank <= limit)
    IN  IF Len(low) >= limit THEN SortByRank(low, limit) ELSE SortByRank(t, limit)

(* the destination table after the statements of a query ran on it: a    *)
(* SELECT leaves every row as it is, a statement of another kind that    *)
(* completed does not                                                    *)
Executed(t, statements) ==
    IF \E k \in 1..Len(statements) :
          statements[k].kind # "SELECT" /\ statements[k].ok
    THEN <<>>
    ELSE t

(* mutant: the query clears the table before it reads it *)
M_QueryRun(warehouse_id, o, so) ==
    LET found == QueryFind(warehouse_id, o, endpoints)
        frame == [pc |-> "done", warehouse_id |-> warehouse_id, lookup |-> o,
                  running_warehouse |-> found.running_warehouse,
                  starts |-> found.starts, calls |-> found.calls,
                  statements |-> <<>>, ok |-> FALSE, leaderboard_data |-> <<>>,
                  error |-> found.error]
    IN  IF found.kind = "raise" THEN frame
        ELSE IF so = "raise"
        THEN [frame EXCEPT !.statements = <<[kind |-> "DELETE", ok |-> TRUE],
                                            [kind |-> "SELECT", ok |-> FALSE]>>,
                           !.error = <<"boom">>]
        ELSE [frame EXCEPT !.statements = <<[kind |-> "DELETE", ok |-> TRUE],
                                            [kind |-> "SELECT", ok |-> TRUE]>>,
                           !.ok = TRUE,
                           !.leaderboard_data = <<>>]

(* lines 1298-1364 and 1432-1437: the rows the query shows, or its error  *)
QueryRun(warehouse_id, o, so) ==
    LET found == QueryFind(warehouse_id, o, endpoints)
        frame == [pc |-> "done", warehouse_id |-> warehouse_id, lookup |-> o,
                  running_warehouse |-> found.running_warehouse,
                  starts |-> found.starts, calls |-> found.calls,
                  statements |-> <<>>, ok |-> FALSE, leaderboard_data |-> <<>>,
                  error |-> found.error]
    IN  IF found.kind = "raise" THEN frame
        ELSE IF so = "raise"
        THEN [frame EXCEPT !.statements = <<[kind |-> "SELECT", ok |-> FALSE]>>,
                           !.error = <<"boom">>]
        ELSE [frame EXCEPT !.statements = <<[kind |-> "SELECT", ok |-> TRUE]>>,
                           !.ok = TRUE,
                           !.leaderboard_data = SelectTop(table, LIMIT)]

(* the ids a caller passes: none, the empty string, a warehouse           *)
WarehouseIds == {NoneStr, Some(EmptyStr), Some(Id(1))}

(* a store of a frame on a named warehouse *)
StoreCall ==
    /\ sf.pc \in {"idle", "done"}
    /\ \E data \in Frames, o \in CallResults :
          sf' = StoreEnter(data, Some(Id(1)), o)
    /\ qf' = QfIdle
    /\ UNCHANGED <<managerVars, endpoints, table, clock, lw, ff>>

(* a query on a named warehouse, between two stores *)
QueryCall ==
    /\ sf.pc \in {"idle", "done"}
    /\ qf.pc = "idle"
    /\ \E o \in CallResults, so \in CallResults :
          qf' = QueryRun(Some(Id(1)), o, so)
    /\ table' = Executed(table, qf'.statements)
    /\ UNCHANGED <<managerVars, endpoints, clock, lw, sf, ff>>

(* a score written to the first row by someone else, between two stores   *)
ScoreUpdate ==
    /\ sf.pc \in {"idle", "done"}
    /\ qf.pc = "idle"
    /\ table # <<>>
    /\ table[1].score = 0
    /\ table' = [table EXCEPT ![1].score = 7]
    /\ UNCHANGED <<managerVars, endpoints, clock, lw, sf, qf, ff>>

NextBoard ==
    \/ StoreCall
    \/ StoreCreateTable
    \/ StoreDelete
    \/ StoreInsert
    \/ StoreReturn
    \/ QueryCall
    \/ ScoreUpdate

InitBoard == Init /\ HAS_DATABRICKS_SDK /\ ctorEnv = "ok"

SpecBoard == InitBoard /\ [][NextBoard]_vars

(* C13: when a store that began on a table holding rows ends in success,  *)
(* the table holds exactly the rows of the new frame, in number           *)
(* len(new): no earlier row and no score written meanwhile is left.       *)
C13_StoreReplaces ==
    [][(sf.pc = "insert" /\ sf'.pc = "done" /\ sf'.result.success
            /\ sf.before.rows > 0)
         => /\ table' = Records(sf.df)
            /\ Len(table') = sf.df.n]_vars

C13_Witness ==
    /\ sf.pc = "done"
    /\ sf.result.success
    /\ sf.before.rows > batch_size
    /\ sf.before.scored
    /\ sf.df.n = 1
    /\ table = Records(sf.df)

(* C14: a query that succeeds right after a successful store of n         *)
(* records shows min(n, 50) rows, row k being record k of the frame: the  *)
(* ranks ascend from 1 in input order.                                    *)
C14_QueryAfterStore ==
    (sf.pc = "done" /\ sf.result.success /\ qf.pc = "done" /\ qf.ok) =>
        /\ Len(qf.leaderboard_data) = Min(sf.df.n, LIMIT)
        /\ \A k \in 1..Len(qf.leaderboard_data) :
              /\ qf.leaderboard_data[k].rank = k
              /\ qf.leaderboard_data[k].display_name = DfRow(sf.df, k).display_name

C14_Witness ==
    /\ sf.pc = "done"
    /\ sf.result.success
    /\ sf.df.n > LIMIT
    /\ qf.pc = "done"
    /\ qf.ok
    /\ Len(qf.leaderboard_data) = LIMIT
    /\ qf.leaderboard_data[LIMIT].display_name = <<"o", "'", "b">>

(* C15: the store ends by returning, never by raising; a failed lookup or *)
(* a statement that raised gives success = FALSE with the cause, and      *)
(* success = TRUE is given only when CREATE, DELETE and every INSERT      *)
(* went through, with the table name catalog.schema.table and             *)
(* record_count = len(records).                                           *)
C15_StoreResult ==
    /\ sf.pc \in {"idle", "create_table", "delete", "insert", "done"}
    /\ sf.pc = "done" =>
          LET failed == \/ sf.lookup = "raise"
                        \/ sf.running_warehouse.isNone
                        \/ \E k \in 1..Len(sf.statements) : ~sf.statements[k].ok
          IN  /\ failed => ~sf.result.success /\ sf.result.error # EmptyStr
              /\ sf.result.success =>
                    /\ ~failed
                    /\ Len(sf.statements) >= 2
                    /\ sf.statements[1].kind = "CREATE"
                    /\ sf.statements[2].kind = "DELETE"
                    /\ sf.result.table_name =
                          <<"main", ".", "default", ".", "workshop_leaderboard">>
                    /\ sf.result.record_count = sf.df.n

C15_Witness ==
    /\ sf.pc = "done"
    /\ ~sf.result.success
    /\ Len(sf.statements) = 4
    /\ sf.statements[3].ok
    /\ ~sf.statements[4].ok

(* the INSERT statements issued so far *)
Inserts == SelectSeq(sf.statements, LAMBDA st : st.kind = "INSERT")

(* C16: the INSERT statements of a store of n records carry the           *)
(* consecutive batches of 1000 rows in input order: the j-th carries rows *)
(* 1000(j-1)+1 .. min(1000j, n), never none and never more than 1000, and *)
(* a store that succeeds has issued ceil(n/1000) of them.                 *)
C16_Batches ==
    sf.pc # "idle" =>
        /\ \A j \in 1..Len(Inserts) :
              /\ Inserts[j].first = 1000 * (j - 1) + 1
              /\ Inserts[j].last = Min(1000 * j, sf.df.n)
              /\ Inserts[j].last - Inserts[j].first + 1 \in 1..1000
        /\ (sf.pc = "done" /\ sf.result.success) =>
              /\ Len(Inserts) = (sf.df.n + 999) \div 1000
              /\ sf.df.n > 0 => Inserts[Len(Inserts)].last = sf.df.n

C16_Witness ==
    /\ sf.pc = "done"
    /\ sf.result.success
    /\ sf.df.n = 2 * batch_size + 1
    /\ Len(Inserts) = 3
    /\ Inserts[3].first = Inserts[3].last

---------------------------------------------------------------------------
(* app.py: how the store and the query find their warehouse, over the     *)
(* listings the provider can give                                         *)

(* a store of a one-row frame, with or without a warehouse id *)
StoreLookupCall ==
    /\ sf.pc \in {"idle", "done"}
    /\ \E warehouse_id \in WarehouseIds, o \in CallResults :
          sf' = StoreEnter([display_name |-> <<"a">>, n |-> 1], warehouse_id, o)
    /\ qf' = QfIdle
    /\ UNCHANGED <<managerVars, endpoints, table, clock, lw, ff>>

(* a query, with or without a warehouse id, once the store has returned *)
QueryLookupCall ==
    /\ sf.pc \in {"idle", "done"}
    /\ qf.pc = "idle"
    /\ \E warehouse_id \in WarehouseIds, o \in CallResults, so \in CallResults :
          qf' = QueryRun(warehouse_id, o, so)
    /\ table' = Executed(table, qf'.statements)
    /\ UNCHANGED <<managerVars, endpoints, clock, lw, sf, ff>>

NextLookup ==
    \/ StoreLookupCall
    \/ StoreCreateTable
    \/ StoreDelete
    \/ StoreInsert
    \/ StoreReturn
    \/ QueryLookupCall

InitLookup ==
    /\ HAS_DATABRICKS_SDK = TRUE
    /\ ctorEnv = "ok"
    /\ mgr = Construct(HAS_DATABRICKS_SDK, ctorEnv)
    /\ provider = {}
    /\ nextId = 1
    /\ last = NoCall
    /\ cm = CmIdle
    /\ created_warehouses = <<>>
    /\ cf = CfIdle
    /\ df = DfIdle
    /\ endpoints \in Listings
    /\ table = <<>>
    /\ clock = 0
    /\ lw = LwIdle
    /\ sf = SfIdle
    /\ qf = QfIdle
    /\ ff = FfIdle

SpecLookup == InitLookup /\ [][NextLookup]_vars

NoneRunning == \A k \in 1..Len(endpoints) : endpoints[k].state # "RUNNING"

(* C19: a store without a warehouse id that lists no RUNNING warehouse    *)
(* issues start calls for the listed warehouses in list order, up to and  *)
(* including the first whose start succeeds, and uses that one; it ends   *)
(* with the 'no warehouse available' cause only when the listing is      *)
(* empty or every start failed.                                           *)
C19_StartsInListOrder ==
    /\ (sf.pc # "idle" /\ ~Truthy(sf.warehouse_id) /\ sf.lookup = "ok" /\ NoneRunning) =>
          \E m \in 0..Len(endpoints) :
              /\ sf.starts = [k \in 1..m |-> endpoints[k].id]
              /\ \A k \in 1..(m - 1) : ~endpoints[k].startable
              /\ IF m > 0 /\ endpoints[m].startable
                 THEN sf.running_warehouse = Some(endpoints[m].id)
                 ELSE /\ m = Len(endpoints)
                      /\ sf.pc = "done"
                      /\ sf.result = [success |-> FALSE, error |-> NoWarehouse]
    /\ (sf.pc = "done" /\ ~sf.result.success /\ sf.result.error = NoWarehouse) =>
          /\ ~Truthy(sf.warehouse_id)
          /\ \A k \in 1..Len(endpoints) :
                endpoints[k].state # "RUNNING" /\ ~endpoints[k].startable

C19_Witness ==
    /\ sf.pc = "done"
    /\ sf.result.success
    /\ sf.warehouse_id = NoneStr
    /\ Len(endpoints) = 2
    /\ ~endpoints[1].startable
    /\ sf.starts = <<endpoints[1].id, endpoints[2].id>>
    /\ sf.result.warehouse_id = endpoints[2].id

(* a store and a query that were given the same id and whose get or list  *)
(* call went the same way, on the same listing                            *)
SameLookup ==
    /\ sf.pc # "idle"
    /\ qf.pc = "done"
    /\ sf.warehouse_id = qf.warehouse_id
    /\ sf.lookup = qf.lookup

(* C20 as stated: on the same provider state and id argument the store    *)
(* and the query select the same warehouse, or both select none.          *)
C20_Original ==
    SameLookup => sf.running_warehouse = qf.running_warehouse

(* C20, amended: with an id supplied, with a failed get or list call, or  *)
(* with a RUNNING warehouse listed, the store and the query select the    *)
(* same warehouse or both none; with no id and no RUNNING warehouse       *)
(* listed the query fails with 'No running warehouse found' and starts    *)
(* nothing, while the store starts warehouses in list order and uses the  *)
(* first whose start succeeds.                                            *)
C20_Amended ==
    SameLookup =>
        IF Truthy(sf.warehouse_id) \/ sf.lookup = "raise" \/ ~NoneRunning
        THEN /\ sf.running_warehouse = qf.running_warehouse
             /\ sf.starts = <<>>
             /\ qf.starts = <<>>
             /\ sf.lookup = "ok" /\ ~Truthy(sf.warehouse_id) =>
                   \E k \in 1..Len(endpoints) :
                       /\ endpoints[k].state = "RUNNING"
                       /\ qf.running_warehouse = Some(endpoints[k].id)
                       /\ \A j \in 1..(k - 1) : endpoints[j].state # "RUNNING"
        ELSE /\ qf.running_warehouse = NoneStr
             /\ ~qf.ok
             /\ qf.error = <<"No running warehouse found">>
             /\ qf.starts = <<>>
             /\ sf.running_warehouse = StartFirst(endpoints).running_warehouse

C20_Witness ==
    /\ SameLookup
    /\ sf.warehouse_id = NoneStr
    /\ sf.lookup = "ok"
    /\ NoneRunning
    /\ sf.result.success
    /\ qf.error = <<"No running warehouse found">>

---------------------------------------------------------------------------
(* app.py: the initialize flow (fetch_users_from_scim) and the warehouse  *)
(* it creates for the leaderboard (create_leaderboard_warehouse)          *)

max_wait == 300
PollSleep == 10

(* the users the flow stores: those fetched, or the five demo users *)
FlowSizes == {1, 5}

(* what a descriptor fetch of the poll can give *)
PollOutcomes == {"RUNNING", "STARTING", "None", "raise"}

(* how the look-up-then-create of the catalog, and of the schema, can end: *)
(* the fetch returns, the fetch raises and the create returns, or both     *)
(* raise                                                                   *)
EnsureOutcomes == {"exists", "created", "failed"}

Call(op, ok) == [op |-> op, ok |-> ok]

(* lines 1070-1082 and 1085-1096: get, and create when get raised *)
Ensure(get, create, o) ==
    IF o = "exists" THEN <<Call(get, TRUE)>>
    ELSE <<Call(get, FALSE), Call(create, o = "created")>>

(* a result the flow has not received yet *)
NoResult == [success |-> FALSE, error |-> EmptyStr]

LwFailed(frame) ==
    [frame EXCEPT !.pc = "done", !.result = [success |-> FALSE, error |-> <<"boom">>]]

(* mutant: a catalog or schema that could not be created ends the call *)
M_LwEnter(ctor, catalog, schema) ==
    LET frame == [pc |-> "create", catalog |-> catalog, schema |-> schema,
                  warehouse_id |-> EmptyStr, warehouse_name |-> EmptyStr,
                  start_time |-> 0, fetches |-> 0, running_seen |-> FALSE,
                  timed_out |-> FALSE,
                  calls |-> <<Call("WorkspaceClient", TRUE)>>
                                \o Ensure("catalogs.get", "catalogs.create", catalog)
                                \o Ensure("schemas.get", "schemas.create", schema),
                  result |-> [success |-> FALSE, error |-> EmptyStr]]
    IN  IF ctor = "raise"
        THEN LwFailed([frame EXCEPT !.catalog = "none", !.schema = "none",
                                    !.calls = <<Call("WorkspaceClient", FALSE)>>])
        ELSE IF catalog = "failed" \/ schema = "failed" THEN LwFailed(frame)
        ELSE frame

(* lines 1045-1096: the client, then catalog and schema at best effort *)
LwEnter(ctor, catalog, schema) ==
    LET frame == [pc |-> "create", catalog |-> catalog, schema |-> schema,
                  warehouse_id |-> EmptyStr, warehouse_name |-> EmptyStr,
                  start_time |-> 0, fetches |-> 0, running_seen |-> FALSE,
                  timed_out |-> FALSE,
                  calls |-> <<Call("WorkspaceClient", TRUE)>>
                                \o Ensure("catalogs.get", "catalogs.create", catalog)
                                \o Ensure("schemas.get", "schemas.create", schema),
                  result |-> [success |-> FALSE, error |-> EmptyStr]]
    IN  IF ctor = "raise"
        THEN LwFailed([frame EXCEPT !.catalog = "none", !.schema = "none",
                                    !.calls = <<Call("WorkspaceClient", FALSE)>>])
        ELSE frame

(* lines 413-670: validation, the SCIM fetch, the frame, and the call of  *)
(* create_leaderboard_warehouse                                           *)
InitializeClick ==
    /\ ff.pc \in {"idle", "done"}
    /\ sf.pc \in {"idle", "done"}
    /\ \E fields \in BOOLEAN, fetch \in CallResults, n \in FlowSizes,
          ctor \in CallResults, catalog \in EnsureOutcomes, schema \in EnsureOutcomes :
          IF ~fields
          THEN /\ ff' = [pc |-> "done", msg |-> "missing_fields", display |-> "none",
                         df |-> [display_name |-> <<"a">>, n |-> 0],
                         warehouse_result |-> NoResult, storage_result |-> NoResult]
               /\ lw' = LwIdle
          ELSE IF fetch = "raise"
          THEN /\ ff' = [pc |-> "done", msg |-> "demo_data", display |-> "none",
                         df |-> [display_name |-> <<"a">>, n |-> 0],
                         warehouse_result |-> NoResult, storage_result |-> NoResult]
               /\ lw' = LwIdle
          ELSE /\ ff' = [pc |-> "warehouse", msg |-> "progress", display |-> "none",
                         df |-> [display_name |-> <<"a">>, n |-> n],
                         warehouse_result |-> NoResult, storage_result |-> NoResult]
               /\ lw' = LwEnter(ctor, catalog, schema)
    /\ sf' = SfIdle
    /\ qf' = QfIdle
    /\ UNCHANGED <<managerVars, endpoints, table, clock>>

(* lines 1103-1119: the name from the clock, and the create call; the id   *)
(* is one the provider has given to no other warehouse of the workspace   *)
LwCreate ==
    /\ lw.pc = "create"
    /\ \E o \in CallResults :
          /\ o = "ok" => Len(endpoints) < MaxEndpoints
          /\ IF o = "raise"
             THEN /\ lw' = LwFailed([lw EXCEPT !.calls =
                                                Append(@, Call("warehouses.create", FALSE))])
                  /\ endpoints' = endpoints
             ELSE /\ lw' = [lw EXCEPT !.pc = "start",
                                      !.calls = Append(@, Call("warehouses.create", TRUE)),
                                      !.warehouse_id = Id(MaxIds + Len(endpoints) + 1),
                                      !.warehouse_name =
                                          <<"workshop-leaderboard-">> \o Digits(clock)]
                  /\ endpoints' = Append(endpoints,
                                         Endpoint(MaxIds + Len(endpoints) + 1,
                                                  "STOPPED", TRUE))
    /\ UNCHANGED <<managerVars, table, clock, sf, qf, ff>>

(* lines 1123-1128: the start call, and the start of the wait *)
LwStart ==
    /\ lw.pc = "start"
    /\ \E o \in CallResults :
          lw' = IF o = "raise"
                THEN LwFailed([lw EXCEPT !.calls =
                                           Append(@, Call("warehouses.start", FALSE))])
                ELSE [lw EXCEPT !.pc = "poll",
                                !.calls = Append(@, Call("warehouses.start", TRUE)),
                                !.start_time = clock]
    /\ UNCHANGED <<managerVars, endpoints, table, clock, sf, qf, ff>>

(* mutant: the wait goes on while the elapsed time is at most max_wait *)
M_PollContinues(now, start_time) == now - start_time <= max_wait

(* line 1130: the condition of the while loop *)
PollContinues(now, start_time) == now - start_time < max_wait

LwSucceeded(frame) ==
    [frame EXCEPT !.pc = "done",
                  !.result = [success |-> TRUE, warehouse_id |-> frame.warehouse_id,
                              warehouse_name |-> frame.warehouse_name]]

(* lines 1130-1135 and 1139-1143: one turn of the loop: the descriptor is *)
(* fetched; RUNNING leaves the loop, anything else sleeps                 *)
LwPoll ==
    /\ lw.pc = "poll"
    /\ PollContinues(clock, lw.start_time)
    /\ \E o \in PollOutcomes :
          IF o = "raise"
          THEN /\ lw' = LwFailed([lw EXCEPT !.fetches = @ + 1,
                                            !.calls =
                                                Append(@, Call("warehouses.get", FALSE))])
               /\ clock' = clock
          ELSE IF o = "RUNNING"
          THEN /\ lw' = LwSucceeded([lw EXCEPT !.fetches = @ + 1,
                                              !.running_seen = TRUE])
               /\ clock' = clock
          ELSE /\ lw' = [lw EXCEPT !.fetches = @ + 1]
               /\ clock' = clock + PollSleep
    /\ UNCHANGED <<managerVars, endpoints, table, sf, qf, ff>>

(* mutant: a wait that ran out is a failure *)
M_LwPollTimeout ==
    /\ lw.pc = "poll"
    /\ ~PollContinues(clock, lw.start_time)
    /\ lw' = LwFailed([lw EXCEPT !.timed_out = TRUE])
    /\ UNCHANGED <<managerVars, endpoints, table, clock, sf, qf, ff>>

(* lines 1136-1143: the else of the loop warns, and success is returned *)
LwPollTimeout ==
    /\ lw.pc = "poll"
    /\ ~PollContinues(clock, lw.start_time)
    /\ lw' = LwSucceeded([lw EXCEPT !.timed_out = TRUE])
    /\ UNCHANGED <<managerVars, endpoints, table, clock, sf, qf, ff>>

(* mutant: the flow tracks the warehouse it created *)
M_FlowStore ==
    /\ ff.pc = "warehouse"
    /\ lw.pc = "done"
    /\ \E o \in CallResults :
          IF lw.result.success
          THEN /\ sf' = StoreEnter(ff.df, Some(lw.result.warehouse_id), o)
               /\ ff' = [ff EXCEPT !.pc = "store", !.warehouse_result = lw.result]
               /\ created_warehouses' =
                     Append(created_warehouses,
                            [id |-> lw.result.warehouse_id,
                             name |-> lw.result.warehouse_name,
                             http_path |-> HttpPath(lw.result.warehouse_id)])
          ELSE /\ sf' = sf
               /\ ff' = [ff EXCEPT !.pc = "done", !.msg = "warehouse_failed",
                                   !.warehouse_result = lw.result]
               /\ created_warehouses' = created_warehouses
    /\ lw' = LwIdle
    /\ UNCHANGED <<envVars, provider, nextId, last, cm, cf, df, endpoints, table, clock, qf>>

(* lines 670-684 and 744-769: create_leaderboard_warehouse has returned;  *)
(* the store on the warehouse just created, or the end of the flow when   *)
(* there is none                                                          *)
FlowStore ==
    /\ ff.pc = "warehouse"
    /\ lw.pc = "done"
    /\ \E o \in CallResults :
          IF lw.result.success
          THEN /\ sf' = StoreEnter(ff.df, Some(lw.result.warehouse_id), o)
               /\ ff' = [ff EXCEPT !.pc = "store", !.warehouse_result = lw.result]
          ELSE /\ sf' = sf
               /\ ff' = [ff EXCEPT !.pc = "done", !.msg = "warehouse_failed",
                                   !.warehouse_result = lw.result]
    /\ lw' = LwIdle
    /\ UNCHANGED <<managerVars, endpoints, table, clock, qf>>

(* lines 686-743: the store has returned; the query after a successful    *)
(* store, or the end of the flow with the in-memory table                 *)
FlowQuery ==
    /\ ff.pc = "store"
    /\ sf.pc = "done"
    /\ \E o \in CallResults, so \in CallResults :
          IF sf.result.success
          THEN /\ qf' = QueryRun(Some(ff.warehouse_result.warehouse_id), o, so)
               /\ ff' = [ff EXCEPT !.pc = "done", !.msg = "initialized",
                                   !.display = "block", !.storage_result = sf.result]
          ELSE /\ qf' = qf
               /\ ff' = [ff EXCEPT !.pc = "done", !.msg = "storage_failed",
                                   !.storage_result = sf.result]
    /\ sf' = SfIdle
    /\ table' = IF sf.result.success THEN Executed(table, qf'.statements) ELSE table
    /\ UNCHANGED <<managerVars, endpoints, clock, lw>>

NextInit ==
    \/ InitializeClick
    \/ LwCreate
    \/ LwStart
    \/ LwPoll
    \/ LwPollTimeout
    \/ FlowStore
    \/ StoreCreateTable
    \/ StoreDelete
    \/ StoreInsert
    \/ StoreReturn
    \/ FlowQuery

SpecInit == InitBoard /\ [][NextInit]_vars

(* the thread that runs the wait keeps running: every sleep returns *)
SpecInitFair == SpecInit /\ WF_vars(LwPoll) /\ WF_vars(LwPollTimeout)

(* C17: when the wait runs out without a fetch that saw RUNNING,          *)
(* create_leaderboard_warehouse returns success with the id and the name  *)
(* of the warehouse, and the initialize flow goes on to the store on that *)
(* warehouse.                                                             *)
C17_TimeoutIsNotFatal ==
    [][(lw.pc = "done" /\ lw.timed_out) =>
          /\ ~lw.running_seen
          /\ lw.result.success
          /\ lw.result.warehouse_id = lw.warehouse_id
          /\ lw.result.warehouse_id # EmptyStr
          /\ lw.result.warehouse_name # EmptyStr
          /\ ff.pc = "warehouse"
          /\ ff'.pc # "warehouse" =>
                /\ ff'.pc = "store"
                /\ sf'.pc # "idle"
                /\ sf'.warehouse_id = Some(lw.warehouse_id)
                /\ sf'.df = ff.df]_vars

C17_Witness ==
    /\ ff.pc = "store"
    /\ ff.warehouse_result.success
    /\ ff.warehouse_result.warehouse_name = <<"workshop-leaderboard-", "0">>
    /\ clock = max_wait
    /\ sf.pc = "insert"
    /\ sf.running_warehouse = Some(ff.warehouse_result.warehouse_id)

(* C18: the wait ends: after a fetch that saw RUNNING no further fetch is *)
(* made, a wait that saw none ends when 300 seconds have gone by, and     *)
(* with the clock moving by the 10 second sleep of each turn at most 30   *)
(* descriptors are fetched.                                               *)
C18_PollTerminates ==
    /\ [](lw.pc \in {"poll", "done"} =>
            /\ lw.fetches <= 30
            /\ lw.running_seen => lw.pc = "done" /\ lw.result.success
            /\ lw.pc = "poll" => clock - lw.start_time = 10 * lw.fetches
            /\ lw.timed_out => lw.fetches = 30 /\ clock - lw.start_time = 300)
    /\ (lw.pc = "poll" ~> lw.pc = "done")

C18_Witness ==
    /\ lw.pc = "done"
    /\ lw.running_seen
    /\ lw.fetches = 30
    /\ clock - lw.start_time = 290

(* C21: a store or a query that is given a warehouse id fetches that      *)
(* warehouse with one get call and runs its statements on it, whatever    *)
(* state the provider lists for it: it makes no list call and no start    *)
(* call.                                                                  *)
C21_IdIsUsedDirectly ==
    /\ (sf.pc # "idle" /\ ~sf.warehouse_id.isNone /\ sf.warehouse_id.s # EmptyStr) =>
          /\ sf.calls = <<"get">>
          /\ sf.starts = <<>>
          /\ sf.lookup = "ok" =>
                /\ sf.running_warehouse = sf.warehouse_id
                /\ \A k \in 1..Len(sf.statements) :
                      sf.statements[k].warehouse_id = sf.warehouse_id.s
    /\ (qf.pc = "done" /\ ~qf.warehouse_id.isNone /\ qf.warehouse_id.s # EmptyStr) =>
          /\ qf.calls = <<"get">>
          /\ qf.starts = <<>>
          /\ qf.lookup = "ok" =>
                /\ qf.running_warehouse = qf.warehouse_id
                /\ Len(qf.statements) = 1

C21_Witness ==
    /\ sf.pc = "done"
    /\ sf.result.success
    /\ sf.warehouse_id = Some(Id(1))
    /\ sf.calls = <<"get">>
    /\ Len(endpoints) = 2
    /\ endpoints[2].id = Id(1)
    /\ endpoints[2].state = "STOPPED"
    /\ ~endpoints[2].startable
    /\ endpoints[1].state = "RUNNING"
    /\ qf.pc = "done"
    /\ qf.ok
    /\ qf.running_warehouse = Some(Id(1))

(* the calls of create_leaderboard_warehouse whose exception ends it *)
FatalCalls == {"WorkspaceClient", "warehouses.create", "warehouses.start",
               "warehouses.get"}

(* the operations called so far, in order *)
LwOps == [k \in 1..Len(lw.calls) |-> lw.calls[k].op]

(* C22: the catalog is created only when its fetch raised, and so is the  *)
(* schema; whatever the four calls did, the schema step and then the      *)
(* warehouse create call follow, and a call that ends in failure has had  *)
(* one of its other calls raise.                                          *)
C22_CatalogSchemaBestEffort ==
    (lw.pc # "idle" /\ lw.calls[1].ok) =>
        LET c == IF lw.calls[2].ok THEN 2 ELSE 3
            n == IF lw.calls[c + 1].ok THEN c + 1 ELSE c + 2
        IN  /\ lw.calls[2].op = "catalogs.get"
            /\ ~lw.calls[2].ok => lw.calls[3].op = "catalogs.create"
            /\ lw.calls[c + 1].op = "schemas.get"
            /\ ~lw.calls[c + 1].ok => lw.calls[c + 2].op = "schemas.create"
            /\ \A k \in 1..Len(lw.calls) :
                  /\ lw.calls[k].op = "catalogs.create" => k = 3 /\ ~lw.calls[2].ok
                  /\ lw.calls[k].op = "schemas.create" => k = c + 2 /\ ~lw.calls[c + 1].ok
            /\ lw.pc # "create" =>
                  Len(lw.calls) > n /\ lw.calls[n + 1].op = "warehouses.create"
            /\ (lw.pc = "done" /\ ~lw.result.success) =>
                  \E k \in 1..Len(lw.calls) :
                      lw.calls[k].op \in FatalCalls /\ ~lw.calls[k].ok
            /\ (lw.pc = "done" /\ \A k \in 1..Len(lw.calls) :
                                     lw.calls[k].op \in FatalCalls => lw.calls[k].ok) =>
                  lw.result.success

C22_Witness ==
    /\ lw.pc = "done"
    /\ lw.result.success
    /\ LwOps = <<"WorkspaceClient", "catalogs.get", "catalogs.create", "schemas.get",
                 "schemas.create", "warehouses.create", "warehouses.start">>
    /\ \A k \in 2..5 : ~lw.calls[k].ok

---------------------------------------------------------------------------
(* app.py: the create flow and the bulk-delete flow as two requests in    *)
(* flight at once on the tracked list, which no lock protects             *)

(* lines 264-303, for a request that passes the validation *)
RaceCreateClick ==
    /\ cf.pc \in {"idle", "done"}
    /\ cm.pc = "idle"
    /\ \E warehouse_name \in {<<"w", "h">>}, n \in 1..MaxAppCount :
          /\ cf' = [pc |-> "creating", msg |-> "progress", fields |-> TRUE,
                    warehouse_count |-> [t |-> "int", v |-> n]]
          /\ cm' = CreateMultipleEnter(Construct(HAS_DATABRICKS_SDK, ctorEnv),
                                       warehouse_name, n)
    /\ UNCHANGED <<boardVars, envVars, provider, nextId, last, created_warehouses, df>>

(* lines 964-989, for a request with its fields filled in *)
RaceDeleteClick ==
    /\ df.pc \in {"idle", "done"}
    /\ df' = IF Len(created_warehouses) = 0
             THEN [pc |-> "done", msg |-> "nothing_to_delete", warehouse_count |-> 0,
                   calls |-> <<>>, cleared |-> <<>>]
             ELSE [pc |-> "loop", self |-> Construct(HAS_DATABRICKS_SDK, ctorEnv),
                   warehouse_count |-> Len(created_warehouses),
                   entries |-> created_warehouses, idx |-> 0, deleted_count |-> 0,
                   failed_deletions |-> <<>>, calls |-> <<>>, msg |-> "progress",
                   cleared |-> <<>>]
    /\ UNCHANGED <<boardVars, envVars, provider, nextId, last, cm, created_warehouses, cf>>

(* line 991: the iterator of the for loop finds no further entry *)
DeleteLoopExit ==
    /\ df.pc = "loop"
    /\ df.idx >= Len(created_warehouses)
    /\ df' = [df EXCEPT !.pc = "clear"]
    /\ UNCHANGED <<boardVars, envVars, provider, nextId, last, cm, created_warehouses, cf>>

(* mutant: the clear keeps the entries the loop did not visit *)
M_DeleteClearAfter ==
    /\ df.pc = "clear"
    /\ created_warehouses' = SubSeq(created_warehouses, df.idx + 1, Len(created_warehouses))
    /\ df' = [df EXCEPT !.pc = "done", !.cleared = created_warehouses,
                        !.msg = IF df.deleted_count = df.warehouse_count THEN "all_deleted"
                                ELSE IF df.deleted_count > 0 THEN "partial"
                                ELSE "deletion_failed"]
    /\ UNCHANGED <<boardVars, envVars, provider, nextId, last, cm, cf>>

(* lines 1015-1036: created_warehouses.clear(), on the list as it is now *)
DeleteClearAfter ==
    /\ df.pc = "clear"
    /\ created_warehouses' = <<>>
    /\ df' = [df EXCEPT !.pc = "done", !.cleared = created_warehouses,
                        !.msg = IF df.deleted_count = df.warehouse_count THEN "all_deleted"
                                ELSE IF df.deleted_count > 0 THEN "partial"
                                ELSE "deletion_failed"]
    /\ UNCHANGED <<boardVars, envVars, provider, nextId, last, cm, cf>>

NextRace ==
    \/ RaceCreateClick
    \/ CreateMultipleIter
    \/ CreateMultipleSleep
    \/ CreateTrack
    \/ RaceDeleteClick
    \/ DeleteIter
    \/ DeleteLoopExit
    \/ DeleteClearAfter

SpecRace == InitApp /\ [][NextRace]_vars

(* the entries the last clear removed although the pass made no stop or   *)
(* delete call for them                                                   *)
Untouched ==
    SelectSeq(df.cleared,
              LAMBDA w : \A k \in 1..Len(df.calls) : df.calls[k].id # w.id)

(* C23: with the two flows in flight at once, the clear of a bulk-delete  *)
(* pass removes whatever is tracked when it runs: an entry appended after *)
(* the loop ended is removed without a stop or delete call of that pass,  *)
(* and its warehouse still exists at the provider and is tracked no more. *)
C23_ClearDropsUntouched ==
    (df.pc = "done" /\ df.warehouse_count >= 1) =>
        \A j \in 1..Len(Untouched) :
            /\ \E n \in provider : Id(n) = Untouched[j].id
            /\ \A k \in 1..Len(created_warehouses) :
                  created_warehouses[k].id # Untouched[j].id

C23_Witness ==
    /\ df.pc = "done"
    /\ df.warehouse_count = 1
    /\ Len(df.cleared) = 2
    /\ Len(Untouched) = 1
    /\ \E n \in provider : Id(n) = Untouched[1].id
    /\ created_warehouses = <<>>
    /\ cf.pc = "done"
    /\ cf.msg = "created"

---------------------------------------------------------------------------
(* C24: every WarehouseResult returned by create_warehouse for a config   *)
(* named N has name N; on success its id is the non-empty id the provider *)
(* returned and its http_path is "/sql/1.0/warehouses/" followed by that  *)
(* id; on failure id and http_path are both the empty string.             *)
C24_ResultFields ==
    (last.op = "create_warehouse" /\ last.ret.kind = "return") =>
        LET r == last.ret.value
        IN  /\ r.name = last.name
            /\ r.success =>
                  /\ last.o.kind = "id"
                  /\ r.id = last.newId
                  /\ Len(r.id) > 0
                  /\ r.http_path = <<"/sql/1.0/warehouses/">> \o r.id
            /\ ~r.success =>
                  /\ r.id = EmptyStr
                  /\ r.http_path = EmptyStr

C24_Witness ==
    /\ last.op = "create_warehouse"
    /\ ~mgr.use_sdk
    /\ last.ret.kind = "return"
    /\ last.ret.value.success
    /\ last.ret.value.id = Id(2)
    /\ last.ret.value.http_path = <<"/sql/1.0/warehouses/">> \o Id(2)

---------------------------------------------------------------------------
(* C27: within create_multiple_warehouses the creations are sequential,   *)
(* one create_warehouse call per step and each returned before the next   *)
(* starts, and a pacing delay lies between every two successive calls: a  *)
(* call is followed by the delay, and a call other than the first is      *)
(* entered only out of the delay.                                         *)
C27_SequentialPaced ==
    [][/\ (cm.pc = "create" /\ cm' # cm) =>
              /\ cm'.pc \in {"sleep", "raised"}
              /\ Len(cm'.attempts) = Len(cm.attempts) + 1
              /\ cm'.i = cm.i
       /\ (cm'.pc = "create" /\ cm' # cm) =>
              /\ cm.pc \in {"idle", "sleep"}
              /\ cm.pc = "idle" => Len(cm'.attempts) = 0
              /\ cm.pc = "sleep" =>
                    /\ cm'.attempts = cm.attempts
                    /\ cm'.i = cm.i + 1
                    /\ Len(cm.attempts) = cm'.i]_vars

C27_Witness ==
    /\ cm.pc = "create"
    /\ cm.count = 3
    /\ cm.i = 2
    /\ Len(cm.attempts) = 2
    /\ Len(cm.results) = 2

---------------------------------------------------------------------------
(* C25: query_leaderboard_from_warehouse only reads: whether it succeeds  *)
(* or fails, every statement it issues is a SELECT, and the rows of the   *)
(* destination table, scores written by others included, are after the    *)
(* call what they were before it.                                         *)
C25_QueryOnlyReads ==
    [][(qf' # qf /\ qf'.pc = "done") =>
          /\ table' = table
          /\ \A k \in 1..Len(qf'.statements) : qf'.statements[k].kind = "SELECT"]_vars

C25_Witness ==
    /\ qf.pc = "done"
    /\ ~qf.ok
    /\ qf.statements = <<[kind |-> "SELECT", ok |-> FALSE]>>
    /\ Len(table) > LIMIT
    /\ table[1].score = 7

---------------------------------------------------------------------------
(* C26: store_leaderboard_in_warehouse issues CREATE TABLE IF NOT EXISTS  *)
(* first, the unconditional DELETE second and the INSERT batches after,   *)
(* all on the one warehouse it selected; an INSERT is issued only after   *)
(* the DELETE completed, and a statement that failed is the last one      *)
(* issued, the store ending in failure.                                   *)
C26_StatementOrder ==
    sf.pc # "idle" =>
        /\ \A k \in 1..Len(sf.statements) :
              /\ sf.statements[k].warehouse_id = sf.running_warehouse.s
              /\ sf.statements[k].kind =
                    IF k = 1 THEN "CREATE" ELSE IF k = 2 THEN "DELETE" ELSE "INSERT"
              /\ k < Len(sf.statements) => sf.statements[k].ok
              /\ k >= 3 => /\ sf.statements[k].first = (k - 3) * batch_size + 1
                           /\ sf.statements[2].ok
        /\ (sf.statements # <<>> /\ ~sf.statements[Len(sf.statements)].ok) =>
              /\ sf.pc = "done"
              /\ ~sf.result.success

C26_Witness ==
    /\ sf.pc = "done"
    /\ ~sf.result.success
    /\ Len(sf.statements) = 4
    /\ sf.statements[1].kind = "CREATE"
    /\ sf.statements[2].kind = "DELETE"
    /\ sf.statements[3].kind = "INSERT"
    /\ sf.statements[3].ok
    /\ ~sf.statements[4].ok
    /\ sf.df.n > 2 * batch_size

(* C29: the store is not atomic: when INSERT batch k fails after the      *)
(* DELETE succeeded, the store returns failure and the table holds        *)
(* exactly the rows of batches 1..k-1, none when k = 1; the rows the      *)
(* table held before the call are gone.                                   *)
C29_PartialStore ==
    [][(sf.pc = "insert" /\ sf'.pc = "done" /\ ~sf'.result.success) =>
          LET k == Len(sf'.statements) - 2
          IN  /\ k >= 1
              /\ sf'.statements[2].kind = "DELETE"
              /\ sf'.statements[2].ok
              /\ ~sf'.statements[k + 2].ok
              /\ table' = SubSeq(Records(sf.df), 1, (k - 1) * batch_size)
              /\ k = 1 => table' = <<>>]_vars

C29_Witness ==
    /\ sf.pc = "done"
    /\ ~sf.result.success
    /\ Len(sf.statements) = 4
    /\ ~sf.statements[4].ok
    /\ sf.before.rows = 1
    /\ sf.before.scored
    /\ Len(table) = batch_size
    /\ table = SubSeq(Records(sf.df), 1, batch_size)

---------------------------------------------------------------------------
(* the order of the steps of the initialize flow: the store runs only on  *)
(* a created warehouse, the query only after a successful store, and a    *)
(* flow whose warehouse creation failed issues no statement               *)
C28_StepsGated ==
    /\ sf.pc # "idle" => /\ ff.pc = "store"
                         /\ ff.warehouse_result.success
                         /\ sf.warehouse_id = Some(ff.warehouse_result.warehouse_id)
    /\ qf.pc # "idle" => /\ ff.pc = "done"
                         /\ ff.warehouse_result.success
                         /\ ff.storage_result.success
    /\ (ff.pc = "done" /\ ff.msg = "warehouse_failed") =>
          /\ ~ff.warehouse_result.success
          /\ sf = SfIdle
          /\ qf = QfIdle

(* C28: in the initialize flow the store is attempted only after          *)
(* create_leaderboard_warehouse returned success, the query only after    *)
(* the store returned success, and the manual-refresh control is visible  *)
(* only when the creation, the store and the query all succeeded; a flow  *)
(* whose warehouse creation failed executes no statement.                 *)
C28_VisibleAfterAllThree ==
    /\ C28_StepsGated
    /\ (ff.pc # "idle" /\ ff.display = "block") =>
          /\ ff.warehouse_result.success
          /\ ff.storage_result.success
          /\ qf.pc = "done"
          /\ qf.ok

---------------------------------------------------------------------------
(* app.py: the three callbacks of the page on one workspace, one request  *)
(* at a time: the create flow, the bulk-delete flow, the initialize flow  *)

(* lines 413-670, for a request that passes the validation, whose SCIM    *)
(* fetch returned one user and whose client could be constructed          *)
MaxFlows == 1

TrackInitializeClick ==
    /\ ff.pc \in {"idle", "done"}
    /\ sf.pc \in {"idle", "done"}
    /\ cf.pc \in {"idle", "done"}
    /\ df.pc \in {"idle", "done"}
    /\ cm.pc = "idle"
    /\ Len(endpoints) < MaxFlows
    /\ lw' = LwEnter("ok", "exists", "exists")
    /\ ff' = [pc |-> "warehouse", msg |-> "progress", display |-> "none",
              df |-> [display_name |-> <<"a">>, n |-> 1],
              warehouse_result |-> NoResult, storage_result |-> NoResult]
    /\ sf' = SfIdle
    /\ qf' = QfIdle
    /\ cf' = CfIdle
    /\ df' = DfIdle
    /\ UNCHANGED <<envVars, provider, nextId, last, cm, created_warehouses,
                   endpoints, table, clock>>

(* lines 264-303, for a request that passes the validation and asks for  *)
(* the largest count                                                      *)
TrackCreateClick ==
    /\ cf.pc \in {"idle", "done"}
    /\ df.pc \in {"idle", "done"}
    /\ ff.pc \in {"idle", "done"}
    /\ cm.pc = "idle"
    /\ \E n \in {MaxAppCount} :
          /\ cf' = [pc |-> "creating", msg |-> "progress", fields |-> TRUE,
                    warehouse_count |-> [t |-> "int", v |-> n]]
          /\ cm' = CreateMultipleEnter(Construct(HAS_DATABRICKS_SDK, ctorEnv),
                                       <<"w", "h">>, n)
    /\ df' = DfIdle
    /\ ff' = FfIdle
    /\ qf' = QfIdle
    /\ UNCHANGED <<envVars, provider, nextId, last, created_warehouses,
                   endpoints, table, clock, lw, sf>>

(* lines 964-989, for a request with its fields filled in *)
TrackDeleteClick ==
    /\ df.pc \in {"idle", "done"}
    /\ cf.pc \in {"idle", "done"}
    /\ ff.pc \in {"idle", "done"}
    /\ df' = IF Len(created_warehouses) = 0
             THEN [pc |-> "done", msg |-> "nothing_to_delete", warehouse_count |-> 0,
                   calls |-> <<>>]
             ELSE [pc |-> "loop", self |-> Construct(HAS_DATABRICKS_SDK, ctorEnv),
                   warehouse_count |-> Len(created_warehouses),
                   entries |-> created_warehouses, idx |-> 0, deleted_count |-> 0,
                   failed_deletions |-> <<>>, calls |-> <<>>, msg |-> "progress"]
    /\ cf' = CfIdle
    /\ ff' = FfIdle
    /\ qf' = QfIdle
    /\ UNCHANGED <<envVars, provider, nextId, last, cm, created_warehouses,
                   endpoints, table, clock, lw, sf>>

NextTrack ==
    \/ TrackInitializeClick
    \/ LwCreate
    \/ LwStart
    \/ LwPoll
    \/ LwPollTimeout
    \/ FlowStore
    \/ StoreCreateTable
    \/ StoreDelete
    \/ StoreInsert
    \/ StoreReturn
    \/ FlowQuery
    \/ TrackCreateClick
    \/ CreateMultipleIter
    \/ CreateMultipleSleep
    \/ CreateTrack
    \/ TrackDeleteClick
    \/ DeleteIter
    \/ DeleteClear

SpecTrack == InitBoard /\ [][NextTrack]_vars

(* the ids of the warehouses create_leaderboard_warehouse has created *)
LeaderboardIds == {endpoints[k].id : k \in 1..Len(endpoints)}

(* C30: the initialize flow leaves the tracked list alone: the warehouse  *)
(* that create_leaderboard_warehouse created is in no tracked entry,      *)
(* whatever was created and tracked before or after it, and no            *)
(* bulk-delete pass makes a stop or delete call for it.                   *)
C30_LeaderboardUntracked ==
    /\ \A k \in 1..Len(created_warehouses) : created_warehouses[k].id \notin LeaderboardIds
    /\ df.pc \in {"loop", "done"} =>
          \A k \in 1..Len(df.calls) : df.calls[k].id \notin LeaderboardIds

C30_Witness ==
    /\ Len(endpoints) = 1
    /\ table # <<>>
    /\ df.pc = "done"
    /\ df.warehouse_count = 2
    /\ Len(df.calls) = 2
    /\ created_warehouses = <<>>
    /\ provider # {}

====
